---- MODULE Spec2Model ----
(***************************************************************************)
(* The health monitor of src/health_monitor.py (class HealthMonitor and    *)
(* main) as a state machine.                                               *)
(*                                                                         *)
(* Time.  The clock is counted in ticks of 30 seconds, the length of the   *)
(* sleep of monitor_loop.  Every stored instant (alerts_sent[k],           *)
(* last_checks[k], an entry's timestamp, a job's next_run) is kept         *)
(* relative to the current clock reading, so the current reading is 0      *)
(* (now), an instant of the past is negative and the passage of d ticks    *)
(* subtracts d from every stored instant.  The source's expressions        *)
(* (now - last < cooldown, timestamp > now - retention) are then written   *)
(* as in the source.  An instant so far in the past that no comparison of  *)
(* the source can tell it from an older one is held at that floor, which   *)
(* keeps the state space finite while the monitor runs forever.            *)
(*                                                                         *)
(* A handler (collect_metrics, run_scheduled_check, send_alert,            *)
(* attempt_recovery) reads the clock once: the seconds a handler itself    *)
(* takes are not modelled, time passes only while the loop sleeps.         *)
(***************************************************************************)
EXTENDS Integers, Sequences, FiniteSets, TLC

VARIABLES
    config,           \* self.config, the merged configuration tree
    hash_seed,        \* the per-process seed of the built-in hash() of str
    \* ---- loading the configuration
    config_file,      \* the file at config_path and its directory
    heap,             \* the dict objects load_config has created, by identity
    default_config,   \* load_config's default_config / deep_merge's default: an identity
    user_config,      \* load_config's user_config / deep_merge's user: an identity
    result,           \* the dict the last deep_merge returned: an identity, 0 for none
    \* ---- the running monitor
    alerts_sent,      \* self.alerts_sent: alert key -> instant of last dispatch
    last_checks,      \* self.last_checks: recovery key -> instant of last attempt
    metrics_history,  \* self.metrics_history: sequence of {timestamp, results}
    metrics_file,     \* content of /var/log/pwnagotchi/metrics.json
    jobs,             \* schedule's jobs: job name -> next_run
    runnable,         \* the due jobs run_pending still has to run, in order
    sched,            \* the loop: "Idle", "RunningCycle", "Backoff" or "Stopped"
                      \* ("Overlapping": a job function called inside another)
    \* ---- observations of the last step and of the recent past
    last_op,          \* the operation the last step performed
    sample,           \* the world as the last step's evaluation sampled it, or NoSample
    last_result,      \* the CheckResult of the last evaluation, or NoResult
    raised,           \* the fault the last step's handler met, or "none"
    calls,            \* the send_alert submissions of the last step, in order
    issued,           \* the restart command of the last step: its outcome, or "none"
    removed,          \* the timestamps the last step's cleanup dropped, in order
    lost,             \* the entries inside the retention that the last step's write
                      \* took from the file and the window does not hold
    logged,           \* the log records the last step wrote
    exit_status,      \* the process's exit status, "none" while it runs
    dispatched,       \* the sink fan-outs younger than the alert cooldown
    restarts,         \* the restart attempts younger than the restart cooldown
    attempts          \* the restart commands issued so far, counted up to one
                      \* more than recovery.max_restart_attempts

loading == <<config_file, heap, default_config, user_config, result>>

vars == <<config, hash_seed, loading, alerts_sent, last_checks, metrics_history, metrics_file,
          jobs, runnable, sched, last_op, sample, last_result, raised, calls, issued,
          removed, lost, logged, exit_status, dispatched, restarts, attempts>>

(***************************************************************************)
(* Bounds of the model and constants of the program.                       *)
(***************************************************************************)
\* the largest alerts.cooldown and the largest metrics retention (in ticks)
\* a modelled configuration holds
MaxCooldown == 2
MaxRetention == 3
\* the largest recovery.restart_cooldown of the configurations attempt_recovery
\* is exercised with on its own
MaxRestartCooldown == 2
\* the most restart attempts on record at which attempt_recovery is still
\* called when exercised on its own
MaxAttempts == 2
\* the threshold every modelled configuration gives each resource check
Threshold == 2

\* time.sleep(30): one tick
SleepTicks == 1
\* schedule.every().minute
MetricsEvery == 2
\* schedule.every(5).minutes
CheckEvery == 10
\* time.sleep(60), the loop's wait after an exception reached it
ErrorSleepTicks == 2

\* tail -n 100: the lines of the log the log check reads
TailLines == 100
\* error_lines[-10:]: the matching lines the log check examines
ErrorsExamined == 10
\* timedelta(minutes=5): a matching line younger than this is recent
RecentMinutes == 5
\* the most runs of equal lines a modelled log file is made of
MaxRuns == 2
\* the leaves of a modelled configuration tree are 1..MaxLeaf
MaxLeaf == 2
\* recovery.max_restart_attempts of the modelled configurations
MaxRestartAttempts == 1

\* time.time() / datetime.now(): the origin of the relative instants
now == 0

ResourceChecks == {"cpu_usage", "memory_usage", "disk_usage", "temperature", "process_count"}

(***************************************************************************)
(* Finite maps (Python dicts) and sequences.                               *)
(***************************************************************************)
Put(d, k, v) == [x \in DOMAIN d \cup {k} |-> IF x = k THEN v ELSE d[x]]

EmptyDict == [x \in {} |-> 0]

RECURSIVE Join(_)
\* ', '.join(names)
Join(names) ==
    IF names = <<>> THEN ""
    ELSE IF Len(names) = 1 THEN names[1]
    ELSE names[1] \o ", " \o Join(Tail(names))

\* the passage of d ticks seen from a stored instant t, held at floor
Elapse(t, d, floor) == IF t - d < floor THEN floor ELSE t - d

(***************************************************************************)
(* Configuration (load_config).  Durations are in ticks.                   *)
(***************************************************************************)
\* a configuration tree; the fields are the keys the monitor reads
Config(api, resources, email, webhook, cooldown, auto_restart, restart_cooldown, retention) ==
    [api_enabled      |-> api,            \* checks.api_response.enabled
     enabled          |-> resources,      \* the resource checks with enabled = true
     threshold        |-> [c \in ResourceChecks |-> Threshold],
     api_threshold    |-> Threshold,      \* checks.api_response.threshold
     email_enabled    |-> email,          \* alerts.email.enabled
     webhook_enabled  |-> webhook,        \* alerts.webhook.enabled
     webhook_headers  |-> {},             \* the keys of alerts.webhook.headers
     cooldown         |-> cooldown,       \* alerts.cooldown
     auto_restart     |-> auto_restart,   \* recovery.auto_restart
     restart_cooldown |-> restart_cooldown,
     max_restart_attempts |-> MaxRestartAttempts,
     retention        |-> retention]      \* metrics.retention_hours

(***************************************************************************)
(* The external world as one evaluation samples it.                        *)
(***************************************************************************)
BelowAll == [c \in ResourceChecks |-> Threshold - 1]

\* the status endpoint as one request meets it: the transport "answered"
\* or "failed" (connection error, timeout); the response's status code, the
\* measured round trip and whether the body is JSON
Api(transport, status_code, latency, body) ==
    [transport |-> transport, status_code |-> status_code, latency |-> latency,
     body |-> body]

ApiOk == Api("answered", 200, Threshold - 1, "json")
ApiSlow == Api("answered", 200, Threshold, "json")
ApiNon200 == Api("answered", 404, Threshold - 1, "json")
ApiException == Api("failed", 0, 0, "none")

\* the supervisor as the service check meets it: the output of
\* 'systemctl is-active' ("exception": the command raises or times out) and
\* the outcome of 'systemctl status', "ok" or "exception"
Service(is_active, status) == [is_active |-> is_active, status |-> status]

ServiceActive == Service("active", "ok")
ServiceInactive == Service("inactive", "ok")
ServiceException == Service("exception", "ok")

\* a line of the log: whether it holds one of the keywords, whether its
\* prefix parses as a timestamp and how many minutes before now that is
Line(matches, parsable, age) == [matches |-> matches, parsable |-> parsable, age |-> age]

LineKinds ==
    {Line(FALSE, TRUE, 1),                   \* no keyword
     Line(TRUE, TRUE, 2 * RecentMinutes),    \* an error of ten minutes ago
     Line(TRUE, TRUE, RecentMinutes),        \* an error of exactly five minutes ago
     Line(TRUE, TRUE, 1),                    \* an error of one minute ago
     Line(TRUE, FALSE, 0)}                   \* an error without a timestamp

\* the log file: "missing", "readable", "unreadable" (tail exits non-zero
\* and prints nothing to stdout) or "exception" (tail raises or times out);
\* its lines are given as runs of equal lines, oldest first
Log(state, runs) == [state |-> state, runs |-> runs]

Run(line, count) == [line |-> line, count |-> count]

LogMissing == Log("missing", <<>>)
LogClean == Log("readable", <<>>)
LogRecentErrors == Log("readable", <<Run(Line(TRUE, TRUE, 1), 1)>>)
LogException == Log("exception", <<>>)

Sample(api, usage, psutil_error, service, logs) ==
    [api          |-> api,           \* an Api record
     usage        |-> usage,         \* resource check -> sampled value
     psutil_error |-> psutil_error,  \* a psutil call raises
     temp_error   |-> FALSE,         \* reading the temperature fails
     service      |-> service,       \* a Service record
     logs         |-> logs]          \* a Log record

\* the samples an evaluation under cfg can meet: a probe that is not run
\* does not sample its part of the world
SamplesFor(cfg) ==
    {Sample(a, u, FALSE, s, l) :
        a \in IF cfg.api_enabled THEN {ApiOk, ApiException} ELSE {ApiOk},
        u \in IF cfg.enabled # {}
              THEN {BelowAll, [BelowAll EXCEPT !["cpu_usage"] = Threshold]}
              ELSE {BelowAll},
        s \in {ServiceActive, ServiceInactive},
        l \in {LogClean, LogRecentErrors}}

\* no evaluation has sampled the world in the last step
NoSample ==
    Sample(Api("none", 0, 0, "none"), BelowAll, FALSE, Service("none", "none"),
           Log("none", <<>>))

\* the values of a resource metric around its threshold
MetricValues == {Threshold - 1, Threshold, Threshold + 1}

\* every resource below its threshold, or one of them at it or above it
Usages ==
    {BelowAll} \cup
    {[BelowAll EXCEPT ![c] = v] : c \in ResourceChecks, v \in MetricValues \ {Threshold - 1}}

\* every state of the world an evaluation tells apart
AllSamples ==
    {Sample(a, u, p, s, l) :
        a \in {ApiOk, ApiSlow, ApiNon200, ApiException},
        u \in Usages,
        p \in BOOLEAN,
        s \in {ServiceActive, ServiceInactive, ServiceException},
        l \in {LogMissing, LogClean, LogRecentErrors, LogException}}

(***************************************************************************)
(* Probes: each returns [ok, data], data reduced to whether it carries an  *)
(* 'error' key and, for the resources, the 'ok' flag of each metric (kept  *)
(* under the name of the metric's check).                                  *)
(***************************************************************************)
Verdict(ok, error) == [ok |-> ok, data |-> [error |-> error]]

\* except Exception as e: return False, {'error': str(e), 'response_time': inf}
ApiExcept == [ok |-> FALSE, data |-> [error |-> TRUE, response_time |-> "inf"]]

\* response.json() raises on a body that is not JSON, inside the try block
check_api_health(cfg, s) ==
    IF s.api.transport # "answered" THEN ApiExcept
    ELSE IF s.api.status_code = 200
    THEN IF s.api.body # "json" THEN ApiExcept
         ELSE [ok |-> s.api.latency < cfg.api_threshold,
               data |-> [error |-> FALSE, response_time |-> ToString(s.api.latency)]]
    ELSE [ok |-> FALSE,
          data |-> [error |-> TRUE, response_time |-> ToString(s.api.latency)]]

\* a variant of MetricOk that passes a value at the threshold
MetricOkAtThreshold(value, limit) == value <= limit

\* cpu_ok = cpu_usage < threshold, and so for each metric
MetricOk(value, limit) == value < limit

\* get_cpu_temperature: 0.0 when no source of the temperature can be read
get_cpu_temperature(s) == IF s.temp_error THEN 0 ELSE s.usage["temperature"]

check_system_resources(cfg, s) ==
    IF s.psutil_error THEN Verdict(FALSE, TRUE)
    ELSE LET cpu_ok     == MetricOk(s.usage["cpu_usage"], cfg.threshold["cpu_usage"])
             memory_ok  == MetricOk(s.usage["memory_usage"], cfg.threshold["memory_usage"])
             disk_ok    == MetricOk(s.usage["disk_usage"], cfg.threshold["disk_usage"])
             process_ok == MetricOk(s.usage["process_count"], cfg.threshold["process_count"])
             temp_ok    == MetricOk(get_cpu_temperature(s), cfg.threshold["temperature"])
             all_ok     == cpu_ok /\ memory_ok /\ disk_ok /\ process_ok /\ temp_ok
         IN  [ok |-> all_ok,
              data |-> [error |-> FALSE,
                        ok |-> [c \in ResourceChecks |->
                                  CASE c = "cpu_usage"     -> cpu_ok
                                    [] c = "memory_usage"  -> memory_ok
                                    [] c = "disk_usage"    -> disk_ok
                                    [] c = "process_count" -> process_ok
                                    [] c = "temperature"   -> temp_ok]]]

\* both supervisor queries run inside one try block
check_service_status(s) ==
    IF s.service.is_active = "exception" \/ s.service.status = "exception"
    THEN Verdict(FALSE, TRUE)
    ELSE Verdict(s.service.is_active = "active", FALSE)

RECURSIVE Expand(_)
\* the lines of a file given as runs
Expand(runs) ==
    IF runs = <<>> THEN <<>>
    ELSE [i \in 1..runs[1].count |-> runs[1].line] \o Expand(Tail(runs))

\* the last n elements of a sequence
Last(seq, n) == IF Len(seq) <= n THEN seq ELSE SubSeq(seq, Len(seq) - n + 1, Len(seq))

\* a variant of Examined that examines every matching line
ExaminedAll(error_lines) == error_lines

\* for line in error_lines[-10:]
Examined(error_lines) == Last(error_lines, ErrorsExamined)

\* a variant of IsRecent that drops a line whose timestamp does not parse
IsRecentParsed(line) == line.parsable /\ line.age < RecentMinutes

\* now - log_time < timedelta(minutes=5), or strptime raised
IsRecent(line) == ~line.parsable \/ line.age < RecentMinutes

check_log_errors(s) ==
    CASE s.logs.state = "missing"    -> Verdict(TRUE, FALSE)
      [] s.logs.state = "exception"  -> Verdict(FALSE, TRUE)
      [] s.logs.state = "unreadable" -> Verdict(TRUE, FALSE)
      [] s.logs.state = "readable"   ->
            LET lines         == Last(Expand(s.logs.runs), TailLines)
                error_lines   == SelectSeq(lines, LAMBDA line : line.matches)
                recent_errors == SelectSeq(Examined(error_lines), IsRecent)
            IN  Verdict(recent_errors = <<>>, FALSE)

(***************************************************************************)
(* run_health_check: the CheckResult of one evaluation.  checks is the     *)
(* dict results['checks']; CheckOrder is its insertion order.              *)
(***************************************************************************)
CheckOrder == <<"api", "resources", "service", "logs">>

\* a variant of AllChecksOk in which the log check counts as well
AllChecksOkWithLogs(api_on, api, res_on, res, service, logs) ==
    (api_on => api.ok) /\ (res_on => res.ok) /\ service.ok /\ logs.ok

\* all_checks_ok once the enabled checks have run
AllChecksOk(api_on, api, res_on, res, service, logs) ==
    (api_on => api.ok) /\ (res_on => res.ok) /\ service.ok

\* a variant of ChecksRun that runs the api check whatever its flag
ChecksRunWithApi(api_on, res_on) ==
    {"api"} \cup (IF res_on THEN {"resources"} ELSE {}) \cup {"service", "logs"}

\* the checks an evaluation runs: the keys of results['checks']
ChecksRun(api_on, res_on) ==
    (IF api_on THEN {"api"} ELSE {}) \cup
    (IF res_on THEN {"resources"} ELSE {}) \cup {"service", "logs"}

Entry(v, bad) == [status |-> IF v.ok THEN "ok" ELSE bad, data |-> v.data]

run_health_check(cfg, s) ==
    LET api_on   == cfg.api_enabled
        res_on   == cfg.enabled # {}
        api      == check_api_health(cfg, s)
        res      == check_system_resources(cfg, s)
        service  == check_service_status(s)
        logs     == check_log_errors(s)
        names    == ChecksRun(api_on, res_on)
        all_checks_ok == AllChecksOk(api_on, api, res_on, res, service, logs)
    IN  [overall_status |-> IF all_checks_ok THEN "healthy" ELSE "unhealthy",
         checks |-> [n \in names |->
                        CASE n = "api"       -> Entry(api, "error")
                          [] n = "resources" -> Entry(res, "error")
                          [] n = "service"   -> Entry(service, "error")
                          [] n = "logs"      -> Entry(logs, "warning")]]

\* no evaluation has returned in the last step
NoResult == [overall_status |-> "none", checks |-> EmptyDict]

\* the names of the checks of results with the given status, in dict order
WithStatus(results, status) ==
    SelectSeq(CheckOrder, LAMBDA n : n \in DOMAIN results.checks
                                     /\ results.checks[n].status = status)

(***************************************************************************)
(* Alert messages and their hash.  hash(message) of a str depends on the   *)
(* per-process seed and is not injective: under seed "colliding" two of    *)
(* the RECOVERY_FAILED messages share a hash value, under "distinct" every *)
(* modelled message has its own.                                           *)
(***************************************************************************)
StderrText == "Unit not found"
ExceptionText == "timed out"

MsgRestarted == "Service automatically restarted"
MsgRestartFailed == "Service restart failed: " \o StderrText
MsgRecoveryFailed == "Recovery attempt failed: " \o ExceptionText
MsgHealthFailed(failed_checks) == "Health check failed: " \o Join(failed_checks)
MsgWarnings(warning_checks) == "Health check warnings: " \o Join(warning_checks)

Messages ==
    <<MsgRestarted, MsgRestartFailed, MsgRecoveryFailed, MsgWarnings(<<"logs">>),
      MsgHealthFailed(<<"api">>), MsgHealthFailed(<<"resources">>),
      MsgHealthFailed(<<"service">>), MsgHealthFailed(<<"api", "resources">>),
      MsgHealthFailed(<<"api", "service">>), MsgHealthFailed(<<"resources", "service">>),
      MsgHealthFailed(<<"api", "resources", "service">>), MsgHealthFailed(<<>>)>>

HashSeeds == {"distinct", "colliding"}

Index(message) == CHOOSE i \in 1..Len(Messages) : Messages[i] = message

hash(message) ==
    IF hash_seed = "colliding" /\ message = MsgRecoveryFailed
    THEN Index(MsgRestartFailed)
    ELSE Index(message)

(***************************************************************************)
(* The monitor object.  The handlers are operators on a record m holding   *)
(* the fields of self and the observations; a step of the state machine    *)
(* applies one handler to the current state.  m.escaped says whether an    *)
(* exception left the handler.                                             *)
(***************************************************************************)
Self ==
    [config |-> config, alerts_sent |-> alerts_sent, last_checks |-> last_checks,
     metrics_history |-> metrics_history, metrics_file |-> metrics_file,
     sample |-> NoSample, last_result |-> NoResult, raised |-> "none",
     escaped |-> FALSE, calls |-> <<>>, tried |-> <<>>,
     issued |-> "none", removed |-> <<>>, lost |-> <<>>, logged |-> {},
     dispatched |-> dispatched, restarts |-> restarts, attempts |-> attempts]

\* the state of the alert sinks during one step
Sinks(email, webhook) == [email |-> email, webhook |-> webhook]

EnabledSinks(cfg) ==
    (IF cfg.email_enabled THEN {"email"} ELSE {}) \cup
    (IF cfg.webhook_enabled THEN {"webhook"} ELSE {})

alert_key(alert_type, message) == alert_type \o "_" \o ToString(hash(message))

\* a variant of InCooldown that ends the cooldown one tick early
InCooldownShort(last_sent, cooldown) == now - last_sent < cooldown - 1

\* send_alert's cooldown test for a key the map holds
InCooldown(last_sent, cooldown) == now - last_sent < cooldown

\* a variant of SinkExcept in which the exception leaves the sink's function
SinkExceptReraise(m, record) == [m EXCEPT !.raised = "sink", !.escaped = TRUE]

\* a sink's except Exception as e: logger.error(record)
SinkExcept(m, record) == [m EXCEPT !.logged = @ \cup {record}]

\* send_email_alert; outcome "ok", or "fail" when building or sending the
\* mail raises
send_email_alert(m, outcome) ==
    LET m1 == [m EXCEPT !.tried = Append(@, "email")]
    IN  IF outcome = "fail" THEN SinkExcept(m1, "Failed to send email alert") ELSE m1

\* send_webhook_alert; outcome "ok", "http_error" (a response with status
\* 400 or more) or "fail" when the request raises
\* headers = webhook_config.get('headers', {}) is the dict of the
\* configuration tree itself, which the merged tree always holds;
\* headers['Content-Type'] = ... writes into it before the request is made
send_webhook_alert(m, outcome) ==
    LET m1 == [m EXCEPT !.tried = Append(@, "webhook"),
                        !.config.webhook_headers = @ \cup {"Content-Type"}]
    IN  CASE outcome = "ok"         -> m1
          [] outcome = "http_error" -> [m1 EXCEPT !.logged = @ \cup {"Webhook alert failed"}]
          [] outcome = "fail"       -> SinkExcept(m1, "Failed to send webhook alert")

\* the set of the elements of a sequence
Range(seq) == {seq[i] : i \in 1..Len(seq)}

\* a variant of MarkSent that forgets every other key
MarkSentAlone(sent, key) == [k \in {key} |-> now]

\* a variant of MarkSent that records nothing
MarkSentNever(sent, key) == sent

\* self.alerts_sent[alert_key] = now
MarkSent(sent, key) == Put(sent, key, now)

\* a variant of Skipped that restarts the cooldown of the key
SkippedRefreshed(m, key) == [m EXCEPT !.alerts_sent[key] = now]

\* return  # Skip duplicate alert
Skipped(m, key) == m

send_alert(m, alert_type, message, sinks) ==
    LET key     == alert_key(alert_type, message)
        known   == key \in DOMAIN m.alerts_sent
        skip    == known /\ InCooldown(m.alerts_sent[key], m.config.cooldown)
        enabled == EnabledSinks(m.config)
        call    == [alert_type |-> alert_type, message |-> message,
                    known |-> known, sent |-> ~skip, tried |-> <<>>, outcome |-> sinks]
    IN  IF skip
        THEN [Skipped(m, key) EXCEPT !.calls = Append(@, call)]
        ELSE LET m1 == [m EXCEPT !.alerts_sent = MarkSent(@, key), !.tried = <<>>]
                 m2 == IF "email" \in enabled
                       THEN send_email_alert(m1, sinks.email) ELSE m1
                 m3 == IF ~m2.escaped /\ "webhook" \in enabled
                       THEN send_webhook_alert(m2, sinks.webhook) ELSE m2
                 m4 == IF ~m3.escaped
                       THEN [m3 EXCEPT !.logged = @ \cup {"Alert sent"}] ELSE m3
             IN  [m4 EXCEPT
                    !.calls      = Append(@, [call EXCEPT !.tried = m4.tried]),
                    !.dispatched = Append(@, [alert_type |-> alert_type, message |-> message,
                                              at |-> now, sinks |-> Range(m4.tried)])]

(***************************************************************************)
(* attempt_recovery.  cmd is the outcome of the restart command:           *)
(* "exit0", "nonzero" (stderr StderrText) or "exception" (raised or timed  *)
(* out, text ExceptionText).                                               *)
(***************************************************************************)
RestartOutcomes == {"exit0", "nonzero", "exception"}

\* a variant of AutoRestart that takes the feature as switched on
AutoRestartAlways(cfg) == TRUE

\* if not self.config['recovery']['auto_restart']: return
AutoRestart(cfg) == cfg.auto_restart

\* a variant of InRestartCooldown that also holds once
\* recovery.max_restart_attempts commands have been issued
InRestartCooldownOrSpent(m) ==
    \/ /\ "service_restart" \in DOMAIN m.last_checks
       /\ now - m.last_checks["service_restart"] < m.config.restart_cooldown
    \/ m.attempts >= m.config.max_restart_attempts

\* attempt_recovery's cooldown test
InRestartCooldown(m) ==
    "service_restart" \in DOMAIN m.last_checks
    /\ now - m.last_checks["service_restart"] < m.config.restart_cooldown

\* a variant of ServiceDown that takes every unhealthy result
ServiceDownAlways(check_results) == check_results.overall_status # "healthy"

\* attempt_recovery's test of the service check
ServiceDown(check_results) ==
    /\ "service" \in DOMAIN check_results.checks
    /\ check_results.checks["service"].status = "error"

\* the recovery state after a restart command with outcome cmd: the
\* assignment is the last statement of the try block
RecordAttempt(last, cmd) ==
    IF cmd = "exception" THEN last ELSE Put(last, "service_restart", now)

\* a variant of Outcome that reports every outcome as a success
OutcomeAlwaysRecovery(cmd) ==
    [alert_type |-> "RECOVERY", message |-> MsgRestarted,
     record |-> "Service restart successful"]

\* what attempt_recovery reports for the restart command's outcome: the
\* alert it submits and the record it logs
Outcome(cmd) ==
    CASE cmd = "exit0" ->
            [alert_type |-> "RECOVERY", message |-> MsgRestarted,
             record |-> "Service restart successful"]
      [] cmd = "nonzero" ->
            [alert_type |-> "RECOVERY_FAILED", message |-> MsgRestartFailed,
             record |-> "Service restart failed"]
      [] cmd = "exception" ->
            [alert_type |-> "RECOVERY_FAILED", message |-> MsgRecoveryFailed,
             record |-> "Recovery attempt failed"]

attempt_recovery(m, check_results, cmd, sinks) ==
    IF ~AutoRestart(m.config) THEN m
    ELSE IF InRestartCooldown(m) THEN m
    ELSE IF ServiceDown(check_results)
    THEN LET m1 == [m EXCEPT !.issued   = cmd,
                             !.restarts = Append(@, [at |-> now, outcome |-> cmd]),
                             !.attempts = IF @ <= m.config.max_restart_attempts
                                          THEN @ + 1 ELSE @,
                             !.logged   = @ \cup {"Attempting service restart..."}]
             o  == Outcome(cmd)
             m2 == [send_alert(m1, o.alert_type, o.message, sinks)
                      EXCEPT !.logged = @ \cup {o.record}]
         IN  [m2 EXCEPT !.last_checks = RecordAttempt(@, cmd)]
    ELSE m

(***************************************************************************)
(* collect_metrics and run_scheduled_check.  env is what the cycle meets:  *)
(* the sample, the restart command's outcome, the sinks and a fault:       *)
(* "none", "eval" (an exception before the result is there), "write" (the  *)
(* metrics file cannot be opened for writing) or "truncate" (open has      *)
(* emptied the file and the dump raises: what is left holds no complete    *)
(* array of entries).  Both bodies are one try block whose except          *)
(* Exception clause logs and returns.                                      *)
(***************************************************************************)
Env(s, cmd, sinks, fault) ==
    [sample |-> s, cmd |-> cmd, sinks |-> sinks, fault |-> fault]

\* a variant of Except in which the exception leaves the handler
ExceptReraise(m, fault, record) == [m EXCEPT !.raised = fault, !.escaped = TRUE]

\* except Exception as e: logger.error(record)
Except(m, fault, record) == [m EXCEPT !.raised = fault, !.logged = @ \cup {record}]

\* a variant of Retained that drops nothing
RetainedAll(entry, retention) == entry.timestamp <= now

\* a variant of Retained that keeps the entry at the cutoff
RetainedAtCutoff(entry, retention) == entry.timestamp >= now - retention

\* the filter of collect_metrics' cleanup
Retained(entry, retention) == entry.timestamp > now - retention

\* a variant of Persisted that writes the window as it was before the cleanup
PersistedBeforeCleanup(appended, history) == appended

\* json.dump(self.metrics_history, f) after the cleanup has replaced the
\* list: the file holds the entries of the window, in order
Persisted(appended, history) == history

\* a variant of Appended that takes up the entries of the metrics file
AppendedToFile(m, metric_entry) == Append(m.metrics_file, metric_entry)

\* self.metrics_history.append(metric_entry)
Appended(m, metric_entry) == Append(m.metrics_history, metric_entry)

\* a variant of WriteFailed that puts the window back as it was before the
\* cycle
WriteFailedRolledBack(m, m1) == [m1 EXCEPT !.metrics_history = m.metrics_history]

\* the monitor as a failed write leaves it: m before the cycle, m1 after the
\* cleanup; the except clause restores nothing
WriteFailed(m, m1) == m1

\* a variant of collect_metrics that reports an unhealthy result to the
\* sinks instead of storing it
collect_metrics_reporting(m, env) ==
    LET check_results == run_health_check(m.config, env.sample)
    IN  IF check_results.overall_status # "healthy"
        THEN send_alert(m, "HEALTH_CHECK_FAILED", MsgHealthFailed(<<"service">>),
                        env.sinks)
        ELSE m

collect_metrics(m, env) ==
    IF env.fault = "eval"
    THEN Except(m, "eval", "Failed to collect metrics")
    ELSE LET check_results == run_health_check(m.config, env.sample)
             metric_entry  == [timestamp |-> now, results |-> check_results]
             appended      == Appended(m, metric_entry)
             history       == SelectSeq(appended,
                                        LAMBDA e : Retained(e, m.config.retention))
             dropped       == SelectSeq(appended,
                                        LAMBDA e : ~Retained(e, m.config.retention))
             m1            == [m EXCEPT !.sample = env.sample,
                                        !.last_result = check_results,
                                        !.metrics_history = history,
                                        !.removed = [i \in 1..Len(dropped) |->
                                                        dropped[i].timestamp]]
             gone          == SelectSeq(m.metrics_file,
                                        LAMBDA e : /\ Retained(e, m.config.retention)
                                                   /\ e \notin Range(history))
         IN  CASE env.fault = "write" ->
                    Except(WriteFailed(m, m1), "write", "Failed to collect metrics")
               [] env.fault = "truncate" ->
                    Except([WriteFailed(m, m1) EXCEPT !.metrics_file = <<>>, !.lost = gone],
                           "write", "Failed to collect metrics")
               [] OTHER ->
                    [m1 EXCEPT !.metrics_file = Persisted(appended, history),
                               !.lost = gone]

\* a variant of Unhealthy that also takes a result with a warning
UnhealthyOrWarned(results) ==
    results.overall_status # "healthy"
    \/ \E n \in DOMAIN results.checks : results.checks[n].status = "warning"

\* if results['overall_status'] != 'healthy'
Unhealthy(results) == results.overall_status # "healthy"

run_scheduled_check(m, env) ==
    IF env.fault = "eval"
    THEN Except(m, "eval", "Error in scheduled check")
    ELSE LET results        == run_health_check(m.config, env.sample)
             m0             == [m EXCEPT !.sample = env.sample, !.last_result = results]
             failed_checks  == WithStatus(results, "error")
             m1             == IF Unhealthy(results)
                               THEN attempt_recovery(
                                        send_alert(m0, "HEALTH_CHECK_FAILED",
                                                   MsgHealthFailed(failed_checks), env.sinks),
                                        results, env.cmd, env.sinks)
                               ELSE m0
             warning_checks == WithStatus(results, "warning")
         IN  IF warning_checks # <<>>
             THEN send_alert(m1, "HEALTH_CHECK_WARNING", MsgWarnings(warning_checks),
                             env.sinks)
             ELSE m1

(***************************************************************************)
(* The passage of time: d ticks later every stored instant is d further    *)
(* in the past.  alerts_sent and last_checks are only ever compared with   *)
(* their cooldown and an entry's timestamp with the retention, which       *)
(* gives the floors.                                                       *)
(***************************************************************************)
Aged(history, d, retention) ==
    [i \in 1..Len(history) |->
        [history[i] EXCEPT !.timestamp = Elapse(@, d, -(retention + 1))]]

Younger(log, d, span) ==
    LET later == [i \in 1..Len(log) |-> [log[i] EXCEPT !.at = @ - d]]
    IN  SelectSeq(later, LAMBDA e : e.at > -span)

PassTime(d) ==
    /\ alerts_sent' = [k \in DOMAIN alerts_sent |->
                          Elapse(alerts_sent[k], d, -config.cooldown)]
    /\ last_checks' = [k \in DOMAIN last_checks |->
                          Elapse(last_checks[k], d, -config.restart_cooldown)]
    /\ metrics_history' = Aged(metrics_history, d, config.retention)
    /\ metrics_file' = Aged(metrics_file, d, config.retention)
    /\ dispatched' = Younger(dispatched, d, config.cooldown)
    /\ restarts' = Younger(restarts, d, config.restart_cooldown)

\* the fields of self and the observations after a handler returned m
Becomes(m) ==
    /\ config' = m.config
    /\ alerts_sent' = m.alerts_sent
    /\ last_checks' = m.last_checks
    /\ metrics_history' = m.metrics_history
    /\ metrics_file' = m.metrics_file
    /\ sample' = m.sample
    /\ last_result' = m.last_result
    /\ raised' = m.raised
    /\ calls' = m.calls
    /\ issued' = m.issued
    /\ removed' = m.removed
    /\ lost' = m.lost
    /\ logged' = m.logged
    /\ dispatched' = Younger(m.dispatched, 0, m.config.cooldown)
    /\ restarts' = Younger(m.restarts, 0, m.config.restart_cooldown)
    /\ attempts' = m.attempts

\* a step that runs no handler observes nothing
NothingObserved ==
    /\ sample' = NoSample
    /\ last_result' = NoResult
    /\ raised' = "none"
    /\ calls' = <<>>
    /\ issued' = "none"
    /\ removed' = <<>>
    /\ lost' = <<>>

(***************************************************************************)
(* Configuration trees (load_config, deep_merge).  A JSON value is a leaf  *)
(* or a mapping from keys to values.  Python dicts are objects: heap holds *)
(* the dicts by identity and a cell of a dict holds a leaf or the identity *)
(* of a nested dict, so that a write through one reference is seen         *)
(* through every other.                                                    *)
(***************************************************************************)
Leaf(v) == [kind |-> "leaf", value |-> v, items |-> EmptyDict]

Dict(items) == [kind |-> "dict", value |-> 0, items |-> items]

\* a cell holding the identity of a nested dict
Ref(addr) == [kind |-> "dict", value |-> addr]

Keys == {"alerts", "cooldown"}

\* the order in which dict.items() yields the keys
KeyOrder == <<"alerts", "cooldown">>

Leaves == {Leaf(v) : v \in 1..MaxLeaf}

DictsOver(values) == UNION {[ks -> values] : ks \in SUBSET Keys}

\* the JSON values of at most two levels of nesting
Trees == Leaves \cup {Dict(items) : items \in DictsOver(Leaves \cup {Dict(i) : i \in DictsOver(Leaves)})}

RECURSIVE Alloc(_, _), AllocItems(_, _, _, _)
\* building the dict of a tree (a literal, json.load): the heap after it and
\* the identity of the new dict
Alloc(h, tree) == AllocItems(Append(h, EmptyDict), Len(h) + 1, tree, KeyOrder)

AllocItems(h, addr, tree, keys) ==
    IF keys = <<>> THEN [heap |-> h, addr |-> addr]
    ELSE IF Head(keys) \notin DOMAIN tree.items THEN AllocItems(h, addr, tree, Tail(keys))
    ELSE LET key   == Head(keys)
             value == tree.items[key]
         IN  IF value.kind = "leaf"
             THEN AllocItems([h EXCEPT ![addr] = Put(@, key, [kind |-> "leaf", value |-> value.value])],
                             addr, tree, Tail(keys))
             ELSE LET a == Alloc(h, value)
                  IN  AllocItems([a.heap EXCEPT ![addr] = Put(@, key, Ref(a.addr))],
                                 addr, tree, Tail(keys))

RECURSIVE Tree(_, _)
\* the JSON value of the dict with identity addr
Tree(h, addr) ==
    Dict([key \in DOMAIN h[addr] |->
            IF h[addr][key].kind = "leaf" THEN Leaf(h[addr][key].value)
            ELSE Tree(h, h[addr][key].value)])

\* a variant of Copy that merges into default itself
Alias(h, default) == [heap |-> h, result |-> default]

\* result = default.copy(): a new dict with the cells of default
Copy(h, default) == [heap |-> Append(h, h[default]), result |-> Len(h) + 1]

RECURSIVE deep_merge(_, _, _), MergeItems(_, _, _, _)
deep_merge(h, default, user) ==
    LET c == Copy(h, default)
    IN  MergeItems(c.heap, c.result, user,
                   SelectSeq(KeyOrder, LAMBDA key : key \in DOMAIN h[user]))

\* for key, value in user.items(): ...; return result
MergeItems(h, res, user, keys) ==
    IF keys = <<>> THEN [heap |-> h, result |-> res]
    ELSE LET key   == Head(keys)
             value == h[user][key]
         IN  IF key \in DOMAIN h[res] /\ h[res][key].kind = "dict" /\ value.kind = "dict"
             THEN LET m == deep_merge(h, h[res][key].value, value.value)
                  IN  MergeItems([m.heap EXCEPT ![res] = Put(@, key, Ref(m.result))],
                                 res, user, Tail(keys))
             ELSE MergeItems([h EXCEPT ![res] = Put(@, key, value)],
                             res, user, Tail(keys))

\* the file at config_path: "absent", "unreadable" (open raises), "invalid"
\* (json.load raises) or "json" with the value it holds; dir tells whether
\* the file's directory can be created and written
ConfigFile(state, content, dir) == [state |-> state, content |-> content, dir |-> dir]

NoFile == ConfigFile("none", Leaf(0), "none")

\* the default_config literal, reduced to alerts.cooldown
DefaultConfig == Dict([k \in {"alerts"} |-> Dict([c \in {"cooldown"} |-> Leaf(1)])])

\* what load_config leaves behind: the heap, the identity of the dict it
\* returned, the file, the records it logged and whether it raised
Loaded(h, returned, file, records, exc) ==
    [heap |-> h, returned |-> returned, file |-> file, logged |-> records, raised |-> exc]

\* a variant of LoadExcept that lets the exception leave load_config
LoadExceptReraise(h, default, file) == Loaded(h, default, file, {}, TRUE)

\* except Exception as e: logger.error(...), then return default_config
LoadExcept(h, default, file) == Loaded(h, default, file, {"Error loading config"}, FALSE)

load_config(file) ==
    LET d       == Alloc(<<>>, DefaultConfig)
        default == d.addr
    IN  CASE file.state = "json" ->
                \* user.items() raises on a value that is not a mapping
                IF file.content.kind # "dict" THEN LoadExcept(d.heap, default, file)
                ELSE LET u == Alloc(d.heap, file.content)
                         m == deep_merge(u.heap, default, u.addr)
                     IN  Loaded(m.heap, m.result, file, {}, FALSE)
          [] file.state \in {"unreadable", "invalid"} -> LoadExcept(d.heap, default, file)
          [] file.state = "absent" ->
                \* os.makedirs and open(config_path, 'w') raise in a directory
                \* that cannot be written
                IF file.dir # "writable" THEN LoadExcept(d.heap, default, file)
                ELSE Loaded(d.heap, default, ConfigFile("json", DefaultConfig, file.dir),
                            {"Created default config"}, FALSE)

\* no configuration has been loaded into the tree model
NotLoaded ==
    /\ config_file = NoFile
    /\ heap = <<>>
    /\ default_config = 0
    /\ user_config = 0
    /\ result = 0

(***************************************************************************)
(* Construction (HealthMonitor.__init__) with configuration cfg, under     *)
(* hash seed seed; registered are the jobs monitor_loop has scheduled.     *)
(***************************************************************************)
\* the attributes __init__ sets besides the configuration, and nothing
\* observed yet; op is the operation performed last
Started(registered, op) ==
    /\ alerts_sent = EmptyDict
    /\ last_checks = EmptyDict
    /\ metrics_history = <<>>
    /\ jobs = registered
    /\ runnable = <<>>
    /\ sched = "Idle"
    /\ last_op = op
    /\ sample = NoSample
    /\ last_result = NoResult
    /\ raised = "none"
    /\ calls = <<>>
    /\ issued = "none"
    /\ removed = <<>>
    /\ lost = <<>>
    /\ logged = {}
    /\ exit_status = "none"
    /\ dispatched = <<>>
    /\ restarts = <<>>
    /\ attempts = 0

Constructed(cfgs, seeds, registered) ==
    /\ config \in cfgs
    /\ hash_seed \in seeds
    /\ NotLoaded
    /\ metrics_file = <<>>
    /\ Started(registered, "init")

(***************************************************************************)
(* monitor_loop (--daemon).  schedule keeps, for each job, next_run;       *)
(* run_pending runs the jobs with now >= next_run in the order of their    *)
(* next_run (registration order among equals) and sets a job's next_run    *)
(* to now + interval once its function returned.  Both job functions       *)
(* catch Exception themselves; an exception that left one would end        *)
(* run_pending and reach the loop's except Exception clause: log, sleep    *)
(* 60 s, go on.  KeyboardInterrupt passes through the job function and     *)
(* run_pending to the loop, which logs and leaves.                         *)
(***************************************************************************)
JobOrder == <<"collect_metrics", "run_scheduled_check">>

Interval(job) == IF job = "collect_metrics" THEN MetricsEvery ELSE CheckEvery

\* schedule.every(...).do(...): next_run = now + interval
Registered == [j \in {"collect_metrics", "run_scheduled_check"} |-> now + Interval(j)]

\* should_run
Due(job) == now >= jobs[job]

\* a variant of RunPending that runs one due job per call
RunPendingFirst(next_run) ==
    LET due == SelectSeq(JobOrder, LAMBDA j : now >= next_run[j])
    IN  IF due = <<>> THEN due ELSE <<due[1]>>

\* sorted(runnable_jobs)
RunPending(next_run) ==
    LET due == SelectSeq(JobOrder, LAMBDA j : now >= next_run[j])
    IN  IF Len(due) = 2 /\ next_run[due[2]] < next_run[due[1]]
        THEN <<due[2], due[1]>>
        ELSE due

\* what a collection cycle under cfg can meet
CollectEnvs(cfg) ==
    {Env(s, "exit0", Sinks("ok", "ok"), f) :
        s \in SamplesFor(cfg), f \in {"none", "eval", "write", "truncate"}}

\* what a scheduled check under cfg can meet; a sink that is not enabled is
\* not tried
CheckEnvs(cfg) ==
    {Env(s, c, Sinks(e, w), f) :
        s \in SamplesFor(cfg), c \in RestartOutcomes,
        e \in IF cfg.email_enabled THEN {"ok", "fail"} ELSE {"ok"},
        w \in IF cfg.webhook_enabled THEN {"ok", "fail"} ELSE {"ok"},
        f \in {"none", "eval"}}

\* time.sleep(30) once run_pending has nothing more to run (time.sleep(60)
\* after an exception reached the loop), then run_pending again
Sleep ==
    /\ sched \in {"Idle", "Backoff"}
    /\ runnable = <<>>
    /\ LET d == IF sched = "Backoff" THEN ErrorSleepTicks ELSE SleepTicks
       IN  /\ PassTime(d)
           /\ jobs' = [j \in DOMAIN jobs |-> jobs[j] - d]
    /\ runnable' = RunPending(jobs')
    /\ sched' = "Idle"
    /\ last_op' = "sleep"
    /\ NothingObserved
    /\ logged' = {}
    /\ UNCHANGED <<config, hash_seed, loading, exit_status, attempts>>

\* a variant of CanStart that lets a job start while another one runs
CanStartAnytime(state) == state \in {"Idle", "RunningCycle"}

\* run_pending calls a job's function from the loop's only thread, once the
\* function called before it has returned
CanStart(state) == state = "Idle"

\* run_pending calls the next due job's function
StartCycle ==
    /\ CanStart(sched)
    /\ runnable # <<>>
    /\ sched' = IF sched = "Idle" THEN "RunningCycle" ELSE "Overlapping"
    /\ last_op' = "start"
    /\ NothingObserved
    /\ logged' = {}
    /\ UNCHANGED <<config, hash_seed, loading, alerts_sent, last_checks, metrics_history,
                   metrics_file, jobs, runnable, exit_status, dispatched, restarts, attempts>>

\* the job function is over, leaving the monitor as m: if it returned,
\* last_run = now and next_run = now + interval; if an exception left it,
\* the loop logs it
Finished(job, m) ==
    /\ Becomes(IF m.escaped
               THEN [m EXCEPT !.logged = @ \cup {"Error in monitor loop"}]
               ELSE m)
    /\ jobs' = IF m.escaped THEN jobs ELSE [jobs EXCEPT ![job] = now + Interval(job)]
    /\ runnable' = IF m.escaped THEN <<>> ELSE Tail(runnable)
    /\ sched' = IF m.escaped THEN "Backoff" ELSE "Idle"
    /\ last_op' = job
    /\ UNCHANGED <<hash_seed, loading, exit_status>>

CollectMetricsCycle ==
    /\ sched = "RunningCycle"
    /\ Head(runnable) = "collect_metrics"
    /\ \E env \in CollectEnvs(config) :
          Finished("collect_metrics", collect_metrics(Self, env))

ScheduledCheckCycle ==
    /\ sched = "RunningCycle"
    /\ Head(runnable) = "run_scheduled_check"
    /\ \E env \in CheckEnvs(config) :
          Finished("run_scheduled_check", run_scheduled_check(Self, env))

\* KeyboardInterrupt, while sleeping or inside a job function
Interrupt ==
    /\ sched \in {"Idle", "Backoff", "RunningCycle"}
    /\ sched' = "Stopped"
    /\ last_op' = "interrupt"
    /\ NothingObserved
    /\ logged' = {"Health monitor stopped"}
    /\ UNCHANGED <<config, hash_seed, loading, alerts_sent, last_checks, metrics_history,
                   metrics_file, jobs, runnable, exit_status, dispatched, restarts, attempts>>

\* the configurations the loop is run with: the status endpoint checked, no
\* resource check, the webhook sink, nothing kept in the metrics window
DaemonConfigs ==
    {Config(TRUE, {}, FALSE, TRUE, 1, TRUE, rc, 0) : rc \in {1, CheckEvery + 1}}

Init == Constructed(DaemonConfigs, {"distinct"}, Registered)

Running ==
    \/ Sleep
    \/ StartCycle
    \/ CollectMetricsCycle
    \/ ScheduledCheckCycle

Next ==
    \/ Running
    \/ Interrupt

Spec == Init /\ [][Next]_vars

(***************************************************************************)
(* The loop with the metrics window in use: no check but the service and   *)
(* log checks, no sink, no restart.                                        *)
(***************************************************************************)
MetricsConfigs ==
    {Config(FALSE, {}, FALSE, FALSE, 0, FALSE, 0, r) : r \in 1..MaxRetention}

MetricsInit == Constructed(MetricsConfigs, {"distinct"}, Registered)

MetricsSpec == MetricsInit /\ [][Next]_vars

\* the metrics file a starting process can find: none or an empty one, or
\* the one an earlier process wrote at this very instant
PriorFiles(cfg) ==
    {<<>>,
     <<[timestamp |-> now,
        results   |-> run_health_check(cfg, Sample(ApiOk, BelowAll, FALSE, ServiceActive,
                                                   LogClean))]>>}

(***************************************************************************)
(* The loop of a process started again: the metrics file of the process    *)
(* before it is in place, under the longest retention.                     *)
(***************************************************************************)
RestartedInit ==
    /\ config = Config(FALSE, {}, FALSE, FALSE, 0, FALSE, 0, MaxRetention)
    /\ hash_seed = "distinct"
    /\ NotLoaded
    /\ metrics_file \in PriorFiles(config)
    /\ Started(Registered, "init")

RestartedSpec == RestartedInit /\ [][Next]_vars

(***************************************************************************)
(* The loop left alone by the operator, its steps taken as long as they    *)
(* can be: time passes and every external call returns or times out.       *)
(***************************************************************************)
LiveConfigs == {Config(FALSE, {}, FALSE, TRUE, 1, TRUE, 1, 1)}

LiveInit == Constructed(LiveConfigs, {"distinct"}, Registered)

LiveSpec == LiveInit /\ [][Running]_vars /\ WF_vars(Running)

(***************************************************************************)
(* send_alert on its own: the calls the monitor makes, submitted at any    *)
(* instant of a clock that does not go back.                               *)
(***************************************************************************)
AlertCalls ==
    {<<"RECOVERY", MsgRestarted>>, <<"RECOVERY_FAILED", MsgRestartFailed>>,
     <<"RECOVERY_FAILED", MsgRecoveryFailed>>,
     <<"HEALTH_CHECK_WARNING", MsgWarnings(<<"logs">>)>>}

AlertConfigs ==
    {Config(FALSE, {}, e, w, c, FALSE, 0, 0) :
        e \in BOOLEAN, w \in BOOLEAN, c \in 1..MaxCooldown}

AlertInit == Constructed(AlertConfigs, HashSeeds, EmptyDict)

SendAlertCall ==
    /\ \E c \in AlertCalls,
          e \in IF config.email_enabled THEN {"ok", "fail"} ELSE {"ok"},
          w \in IF config.webhook_enabled THEN {"ok", "http_error", "fail"} ELSE {"ok"} :
          Becomes(send_alert(Self, c[1], c[2], Sinks(e, w)))
    /\ last_op' = "send_alert"
    /\ UNCHANGED <<hash_seed, loading, jobs, runnable, sched, exit_status>>

Pass ==
    /\ PassTime(1)
    /\ last_op' = "pass"
    /\ NothingObserved
    /\ logged' = {}
    /\ UNCHANGED <<config, hash_seed, loading, jobs, runnable, sched, exit_status,
                   attempts>>

AlertNext ==
    \/ SendAlertCall
    \/ Pass

AlertSpec == AlertInit /\ [][AlertNext]_vars

(***************************************************************************)
(* attempt_recovery on its own, called with the result of an evaluation at *)
(* any instant, between the alerts run_scheduled_check sends for a service *)
(* in error.                                                               *)
(***************************************************************************)
RecoveryConfigs ==
    {Config(FALSE, {}, FALSE, TRUE, c, ar, rc, 0) :
        c \in 1..MaxCooldown, ar \in BOOLEAN, rc \in 1..MaxRestartCooldown}

RecoveryInit == Constructed(RecoveryConfigs, {"distinct"}, EmptyDict)

AttemptRecoveryCall ==
    /\ Len(restarts) < MaxAttempts
    /\ \E s \in SamplesFor(config), cmd \in RestartOutcomes, w \in {"ok", "fail"} :
          LET results == run_health_check(config, s)
          IN  Becomes(attempt_recovery([Self EXCEPT !.sample = s, !.last_result = results],
                                       results, cmd, Sinks("ok", w)))
    /\ last_op' = "attempt_recovery"
    /\ UNCHANGED <<hash_seed, loading, jobs, runnable, sched, exit_status>>

HealthAlertCall ==
    /\ \E w \in {"ok", "fail"} :
          Becomes(send_alert(Self, "HEALTH_CHECK_FAILED", MsgHealthFailed(<<"service">>),
                             Sinks("ok", w)))
    /\ last_op' = "send_alert"
    /\ UNCHANGED <<hash_seed, loading, jobs, runnable, sched, exit_status>>

RecoveryNext ==
    \/ AttemptRecoveryCall
    \/ HealthAlertCall
    \/ Pass

RecoverySpec == RecoveryInit /\ [][RecoveryNext]_vars

(***************************************************************************)
(* run_scheduled_check on its own, called at any instant: cycles closer    *)
(* together than the loop's five minutes, with resource checks enabled and *)
(* both cooldowns longer than one tick.  A cycle finds all well or the CPU *)
(* at its threshold and the service down.                                  *)
(***************************************************************************)
CycleSamples ==
    {Sample(ApiOk, BelowAll, FALSE, ServiceActive, LogClean),
     Sample(ApiOk, [BelowAll EXCEPT !["cpu_usage"] = Threshold], FALSE, ServiceInactive,
            LogClean)}

CycleEnvs ==
    {Env(s, c, Sinks("ok", w), "none") :
        s \in CycleSamples, c \in RestartOutcomes, w \in {"ok", "fail"}}

CycleConfigs ==
    {Config(FALSE, {"cpu_usage"}, FALSE, TRUE, c, TRUE, rc, 0) :
        c \in 2..MaxCooldown, rc \in 2..MaxRestartCooldown}

CycleInit == Constructed(CycleConfigs, {"distinct"}, EmptyDict)

ScheduledCheckCall ==
    /\ Len(restarts) < MaxAttempts
    /\ \E env \in CycleEnvs : Becomes(run_scheduled_check(Self, env))
    /\ last_op' = "run_scheduled_check"
    /\ UNCHANGED <<hash_seed, loading, jobs, runnable, sched, exit_status>>

CycleNext ==
    \/ ScheduledCheckCall
    \/ Pass

CycleSpec == CycleInit /\ [][CycleNext]_vars

(***************************************************************************)
(* main without --daemon: one evaluation, printed; with --check the exit   *)
(* status tells the overall status.                                        *)
(***************************************************************************)
OneShotConfigs ==
    {Config(a, r, FALSE, TRUE, 1, TRUE, 1, 1) :
        a \in BOOLEAN, r \in {{}, {"cpu_usage"}, {"memory_usage"}, ResourceChecks}}

OneShotInit ==
    /\ config \in OneShotConfigs
    /\ hash_seed = "distinct"
    /\ NotLoaded
    /\ metrics_file \in PriorFiles(config)
    /\ Started(EmptyDict, "init")

\* a variant of ExitStatus that always reports success
ExitStatusZero(flag, results) == 0

\* exit(0 if results['overall_status'] == 'healthy' else 1) under --check;
\* without a flag main returns and the interpreter exits with 0
ExitStatus(flag, results) ==
    IF flag = "--check" /\ results.overall_status # "healthy" THEN 1 ELSE 0

\* a variant of Main that runs the scheduled check in place of the bare
\* evaluation
MainScheduled(flags, samples) ==
    /\ last_op = "init"
    /\ \E flag \in flags, s \in samples :
          /\ Becomes(run_scheduled_check(Self, Env(s, "exit0", Sinks("ok", "ok"), "none")))
          /\ last_op' = flag
          /\ exit_status' = 0
    /\ UNCHANGED <<hash_seed, loading, jobs, runnable, sched>>

\* main without --daemon, started with one of flags in a world of samples
Main(flags, samples) ==
    /\ last_op = "init"
    /\ \E flag \in flags, s \in samples :
          LET results == run_health_check(config, s)
          IN  /\ sample' = s
              /\ last_result' = results
              /\ last_op' = flag
              /\ logged' = {"print(json.dumps(results))"}
              /\ exit_status' = ExitStatus(flag, results)
    /\ UNCHANGED <<config, hash_seed, loading, alerts_sent, last_checks, metrics_history,
                   metrics_file, jobs, runnable, sched, raised, calls, issued, removed,
                   lost, dispatched, restarts, attempts>>

OneShot == Main({"--check", "none"}, AllSamples)

OneShotSpec == OneShotInit /\ [][OneShot]_vars

(***************************************************************************)
(* One evaluation with every check enabled, over the details of what each  *)
(* probe can meet: the answers of the status endpoint, the outcomes of the *)
(* two supervisor queries, the contents of the log and the failures of the *)
(* metric sources.                                                         *)
(***************************************************************************)
ProbeConfigs == {Config(TRUE, ResourceChecks, FALSE, FALSE, 1, FALSE, 1, 0)}

Healthy == Sample(ApiOk, BelowAll, FALSE, ServiceActive, LogClean)

Apis ==
    {ApiException} \cup
    {Api("answered", c, l, b) :
        c \in {200, 204, 404, 500}, l \in {Threshold - 1, Threshold, Threshold + 1},
        b \in {"json", "text"}}

Services ==
    {Service(a, st) :
        a \in {"active", "inactive", "failed", "activating", "exception"},
        st \in {"ok", "exception"}}

Runs == {Run(line, count) : line \in LineKinds, count \in {1, ErrorsExamined, TailLines}}

RunSeqs == UNION {[1..n -> Runs] : n \in 0..MaxRuns}

Logs ==
    {LogMissing, LogException, Log("unreadable", <<>>)} \cup
    {Log("readable", runs) : runs \in RunSeqs}

ProbeSamples ==
    {[Healthy EXCEPT !.api = a] : a \in Apis} \cup
    {[Healthy EXCEPT !.service = sv] : sv \in Services} \cup
    {[Healthy EXCEPT !.logs = l] : l \in Logs} \cup
    {[Healthy EXCEPT !.usage["temperature"] = v, !.psutil_error = p, !.temp_error = e] :
        v \in MetricValues, p \in BOOLEAN, e \in BOOLEAN} \cup
    {[Healthy EXCEPT !.api = a, !.psutil_error = p, !.temp_error = e, !.service = sv,
                     !.logs = l] :
        a \in {ApiOk, ApiException}, p \in BOOLEAN, e \in BOOLEAN,
        sv \in {ServiceActive, ServiceInactive, ServiceException,
                 Service("active", "exception")},
        l \in {LogClean, LogException, Log("unreadable", <<>>)}}

ProbeInit == Constructed(ProbeConfigs, {"distinct"}, EmptyDict)

ProbeRun == Main({"--check"}, ProbeSamples)

ProbeSpec == ProbeInit /\ [][ProbeRun]_vars

(***************************************************************************)
(* deep_merge applied to every pair of configuration trees, and once more  *)
(* to its own result and the same user tree.                               *)
(***************************************************************************)
Dicts == {tree \in Trees : tree.kind = "dict"}

\* self.config before __init__ has assigned it
NoConfig == [kind |-> "none", value |-> 0, items |-> EmptyDict]

MergeInit ==
    /\ config = NoConfig
    /\ hash_seed = "distinct"
    /\ config_file = NoFile
    /\ \E d \in Dicts, u \in Dicts :
          LET a == Alloc(<<>>, d)
              b == Alloc(a.heap, u)
          IN  /\ heap = b.heap
              /\ default_config = a.addr
              /\ user_config = b.addr
    /\ result = 0
    /\ metrics_file = <<>>
    /\ Started(EmptyDict, "start")

\* deep_merge called with from as its default and user_config as its user
DeepMerge(from, op) ==
    LET m == deep_merge(heap, from, user_config)
    IN  /\ heap' = m.heap
        /\ result' = m.result
        /\ last_op' = op
        /\ UNCHANGED <<config, hash_seed, config_file, default_config, user_config,
                       alerts_sent, last_checks, metrics_history, metrics_file, jobs,
                       runnable, sched, sample, last_result, raised, calls, issued,
                       removed, lost, logged, exit_status, dispatched, restarts,
                       attempts>>

DeepMergeCall == last_op = "start" /\ DeepMerge(default_config, "deep_merge")

DeepMergeAgain == last_op = "deep_merge" /\ DeepMerge(result, "deep_merge_again")

MergeNext == DeepMergeCall \/ DeepMergeAgain

MergeSpec == MergeInit /\ [][MergeNext]_vars

(***************************************************************************)
(* Construction of the monitor over every state of the configuration file. *)
(***************************************************************************)
ConfigFiles ==
    {ConfigFile("absent", Leaf(0), dir) : dir \in {"writable", "readonly"}} \cup
    {ConfigFile(state, Leaf(0), "writable") : state \in {"unreadable", "invalid"}} \cup
    {ConfigFile("json", content, "writable") : content \in Trees}

LoadInit ==
    /\ config = NoConfig
    /\ hash_seed = "distinct"
    /\ config_file \in ConfigFiles
    /\ heap = <<>>
    /\ default_config = 0
    /\ user_config = 0
    /\ result = 0
    /\ metrics_file = <<>>
    /\ Started(EmptyDict, "start")

\* HealthMonitor(): self.config = self.load_config(config_path), then the
\* empty maps and history; an exception leaving load_config leaves the
\* constructor
Construct ==
    /\ last_op = "start"
    /\ LET r == load_config(config_file)
       IN  /\ heap' = r.heap
           /\ config_file' = r.file
           /\ logged' = r.logged
           /\ config' = IF r.raised THEN config ELSE Tree(r.heap, r.returned)
           /\ raised' = IF r.raised THEN "exception" ELSE "none"
           /\ last_op' = IF r.raised THEN "init_failed" ELSE "init"
    /\ UNCHANGED <<hash_seed, default_config, user_config, result, alerts_sent,
                   last_checks, metrics_history, metrics_file, jobs, runnable, sched,
                   sample, last_result, calls, issued, removed, lost, exit_status,
                   dispatched, restarts, attempts>>

LoadSpec == LoadInit /\ [][Construct]_vars

(***************************************************************************)
(* Properties.                                                             *)
(***************************************************************************)
SamePair(a, b) == a.alert_type = b.alert_type /\ a.message = b.message

\* C1: two fan-outs of the same alert type and message to a sink are never
\* less than the alert cooldown apart.
C1_FanoutsCooldownApart ==
    \A i, j \in 1..Len(dispatched) :
        (i < j /\ SamePair(dispatched[i], dispatched[j])
               /\ dispatched[i].sinks \cap dispatched[j].sinks # {})
            => dispatched[j].at - dispatched[i].at >= config.cooldown

\* a call inside the cooldown of an earlier fan-out of its pair has just
\* been suppressed
C1_Witness ==
    /\ last_op = "send_alert"
    /\ EnabledSinks(config) # {}
    /\ Len(calls) = 1 /\ ~calls[1].sent
    /\ \E i \in 1..Len(dispatched) : SamePair(dispatched[i], calls[1])

\* C2: two restart commands are never issued less than the restart
\* cooldown apart.
C2_RestartsCooldownApart ==
    \A i, j \in 1..Len(restarts) :
        i < j => restarts[j].at - restarts[i].at >= config.restart_cooldown

\* C3: a cycle that has issued the restart command has recorded the
\* attempt time, whatever the command's outcome.
C3_AttemptRecorded ==
    issued # "none" =>
        /\ "service_restart" \in DOMAIN last_checks
        /\ last_checks["service_restart"] = now

\* C4: a send_alert call fans out, once and to every enabled sink,
\* exactly when no fan-out of the same type and message is younger than the
\* cooldown.
C4_FanoutPerPair ==
    last_op = "send_alert" =>
        \A c \in 1..Len(calls) :
            LET same == {i \in 1..Len(dispatched) : SamePair(dispatched[i], calls[c])}
            IN  IF calls[c].sent
                THEN \E i \in same :
                        /\ same = {i}
                        /\ dispatched[i].at = now
                        /\ dispatched[i].sinks = EnabledSinks(config)
                ELSE same # {}

\* C5: an evaluation is unhealthy exactly when one of its api, resources
\* and service checks is in error; the log check is ok or warning and has
\* no part in the overall status.
C5_Aggregation ==
    last_result # NoResult =>
        /\ last_result.overall_status \in {"healthy", "unhealthy"}
        /\ last_result.overall_status = "unhealthy"
              <=> \E n \in {"api", "resources", "service"} \cap DOMAIN last_result.checks :
                     last_result.checks[n].status = "error"
        /\ last_result.checks["logs"].status \in {"ok", "warning"}

\* an evaluation that found recent errors in the log and nothing else
C5_Witness ==
    /\ last_op \in {"--check", "none"}
    /\ last_result # NoResult
    /\ last_result.checks["logs"].status = "warning"
    /\ last_result.overall_status = "healthy"

Stale(timestamp) == timestamp < now - config.retention

\* C6 as stated: the window never holds an entry older than the retention.
C6_WindowNeverStale ==
    \A i \in 1..Len(metrics_history) : ~Stale(metrics_history[i].timestamp)

\* C6: right after a collect_metrics call that reached its cleanup, the
\* window holds no entry older than the retention.
C6_WindowFreshAfterCleanup ==
    (last_op = "collect_metrics" /\ last_result # NoResult) =>
        \A i \in 1..Len(metrics_history) : ~Stale(metrics_history[i].timestamp)

\* a collection that dropped entries and then failed to write the file
C6_Witness ==
    /\ last_op = "collect_metrics"
    /\ raised = "write"
    /\ removed # <<>>
    /\ metrics_history # <<>>

NewEntry(results) == [timestamp |-> now, results |-> results]

KeptNotStale(history) == SelectSeq(history, LAMBDA e : ~Stale(e.timestamp))

KeptNewer(history) == SelectSeq(history, LAMBDA e : e.timestamp > now - config.retention)

\* C7 as stated: a collection appends one entry and removes exactly the
\* entries older than the retention, keeping the order of the rest.
C7_RemovesOlder ==
    [][(last_op' = "collect_metrics" /\ last_result' # NoResult) =>
          metrics_history' = KeptNotStale(Append(metrics_history, NewEntry(last_result')))]_vars

\* C7: a collection appends one entry and removes exactly the entries as
\* old as the retention or older, keeping the order of the rest.
C7_RemovesAtCutoff ==
    [][(last_op' = "collect_metrics" /\ last_result' # NoResult) =>
          metrics_history' = KeptNewer(Append(metrics_history, NewEntry(last_result')))]_vars

\* a collection that kept an older entry, added its own and dropped one
C7_Witness ==
    /\ last_op = "collect_metrics"
    /\ Len(metrics_history) >= 2
    /\ metrics_history[Len(metrics_history)].timestamp = now
    /\ removed # <<>>

\* C8: an exception in a cycle is logged by its handler, the job is
\* rescheduled and the loop goes on; only the interrupt stops the loop.
C8_CycleErrorsContained ==
    /\ raised # "none" =>
          /\ last_op \in {"collect_metrics", "run_scheduled_check"}
          /\ (IF last_op = "collect_metrics" THEN "Failed to collect metrics"
                                             ELSE "Error in scheduled check") \in logged
          /\ sched \in {"Idle", "RunningCycle"}
          /\ jobs[last_op] = now + Interval(last_op)
    /\ sched # "Backoff"
    /\ sched = "Stopped" => last_op = "interrupt"

\* the scheduled check has raised while evaluating
C8_Witness ==
    /\ last_op = "run_scheduled_check"
    /\ raised = "eval"
    /\ sched \in {"Idle", "RunningCycle"}

\* C9: the loop runs each job again and again, and when it goes to sleep
\* no job is due.
C9_JobsKeepRunning ==
    /\ []<>(last_op = "collect_metrics")
    /\ []<>(last_op = "run_scheduled_check")
    /\ []((sched = "Idle" /\ runnable = <<>> /\ last_op # "init") =>
             \A job \in DOMAIN jobs : ~Due(job))

\* both jobs were due and the first one failed: the second is still to run
C9_Witness ==
    /\ last_op = "collect_metrics"
    /\ raised # "none"
    /\ runnable = <<"run_scheduled_check">>

\* C10: the restart command is only issued by a scheduled check whose
\* service check is in error.
C10_RestartOnlyForService ==
    issued # "none" =>
        /\ last_op = "run_scheduled_check"
        /\ config.auto_restart
        /\ last_result # NoResult
        /\ last_result.checks["service"].status = "error"

\* a restart issued while the api check failed too
C10_Witness ==
    /\ issued # "none"
    /\ last_result # NoResult
    /\ last_result.checks["api"].status = "error"

\* C11: with recovery.auto_restart false an attempt_recovery call issues no
\* restart command, submits no alert and leaves the recovery state and the
\* alert records as they were.
C11_DisabledRecoveryIsNoOp ==
    [][(last_op' = "attempt_recovery" /\ ~config.auto_restart) =>
          /\ issued' = "none"
          /\ calls' = <<>>
          /\ "Attempting service restart..." \notin logged'
          /\ last_checks' = last_checks
          /\ alerts_sent' = alerts_sent]_vars

\* attempt_recovery called for a service in error, the feature switched off
\* and an alert on record
C11_Witness ==
    /\ last_op = "attempt_recovery"
    /\ ~config.auto_restart
    /\ last_result.checks["service"].status = "error"
    /\ alerts_sent # EmptyDict

\* C12: a restart attempt is followed, in the same attempt_recovery call, by
\* exactly one send_alert submission: RECOVERY if and only if the command
\* exited 0, otherwise RECOVERY_FAILED with the error text in the message.
C12_AttemptReported ==
    (last_op = "attempt_recovery" /\ issued # "none") =>
        /\ Len(calls) = 1
        /\ calls[1].alert_type = "RECOVERY" <=> issued = "exit0"
        /\ calls[1].alert_type \in {"RECOVERY", "RECOVERY_FAILED"}
        /\ issued = "nonzero" => calls[1].message = "Service restart failed: " \o StderrText
        /\ issued = "exception" =>
              calls[1].message = "Recovery attempt failed: " \o ExceptionText

\* the restart command raised and the alert about it went out
C12_Witness ==
    /\ last_op = "attempt_recovery"
    /\ issued = "exception"
    /\ Len(calls) = 1 /\ calls[1].sent

\* C13: an alert that is not suppressed, with both sinks enabled, tries the
\* email sink and then the webhook sink once each whatever the outcome of
\* either; a sink's failure is logged and send_alert returns normally.
C13_SinksIsolated ==
    (last_op = "send_alert" /\ EnabledSinks(config) = {"email", "webhook"}) =>
        \A c \in 1..Len(calls) :
            calls[c].sent =>
                /\ calls[c].tried = <<"email", "webhook">>
                /\ raised = "none"
                /\ "Alert sent" \in logged
                /\ calls[c].outcome.email = "fail" => "Failed to send email alert" \in logged
                /\ calls[c].outcome.webhook = "fail" =>
                      "Failed to send webhook alert" \in logged
                /\ calls[c].outcome.webhook = "http_error" => "Webhook alert failed" \in logged

\* an alert went out while both sinks failed
C13_Witness ==
    /\ last_op = "send_alert"
    /\ EnabledSinks(config) = {"email", "webhook"}
    /\ Len(calls) = 1 /\ calls[1].sent
    /\ calls[1].outcome = Sinks("fail", "fail")
    /\ calls[1].tried = <<"email", "webhook">>

AllDisabled == ~config.api_enabled /\ config.enabled = {}

\* C14 as stated: with every configurable check disabled an evaluation
\* returns healthy with an empty checks map.
C14_NothingRun ==
    (last_result # NoResult /\ AllDisabled) =>
        /\ last_result.overall_status = "healthy"
        /\ DOMAIN last_result.checks = {}

\* C14: with every configurable check disabled an evaluation returns a
\* checks map of exactly the service and logs entries and is healthy if and
\* only if the service check is ok.
C14_ServiceAndLogsRun ==
    (last_result # NoResult /\ AllDisabled) =>
        /\ DOMAIN last_result.checks = {"service", "logs"}
        /\ last_result.overall_status = "healthy"
              <=> last_result.checks["service"].status = "ok"

\* every configurable check disabled, the service down
C14_Witness ==
    /\ last_result # NoResult
    /\ AllDisabled
    /\ sample.service = ServiceInactive
    /\ last_result.overall_status = "unhealthy"

Statuses(results) ==
    [overall_status |-> results.overall_status,
     checks |-> [n \in DOMAIN results.checks |-> results.checks[n].status]]

\* C15: the sampled value of a disabled probe has no influence on the check
\* statuses and the overall status of an evaluation.
C15_DisabledProbeIgnored ==
    last_result # NoResult =>
        /\ \A c \in ResourceChecks \ config.enabled, v \in MetricValues :
              Statuses(run_health_check(config, [sample EXCEPT !.usage[c] = v]))
                 = Statuses(last_result)
        /\ ~config.api_enabled =>
              \A a \in {ApiOk, ApiSlow, ApiNon200, ApiException} :
                 Statuses(run_health_check(config, [sample EXCEPT !.api = a]))
                    = Statuses(last_result)

\* C16: a resource metric is reported ok if and only if its value is below
\* its threshold, a value at the threshold is not ok, and the resources
\* check is in error if and only if a metric is not ok.
C16_StrictThreshold ==
    (last_result # NoResult /\ "resources" \in DOMAIN last_result.checks
                            /\ ~sample.psutil_error) =>
        LET resources == last_result.checks["resources"]
        IN  /\ \A c \in ResourceChecks :
                  resources.data.ok[c] <=> sample.usage[c] < config.threshold[c]
            /\ resources.status = "error" <=> \E c \in ResourceChecks : ~resources.data.ok[c]

\* a metric sampled exactly at its threshold
C16_Witness ==
    /\ last_result # NoResult
    /\ "resources" \in DOMAIN last_result.checks
    /\ ~sample.psutil_error
    /\ sample.usage["temperature"] = config.threshold["temperature"]
    /\ last_result.checks["resources"].status = "error"

\* C19: a run without --daemon makes one evaluation and prints it; with
\* --check the exit status is 0 if the result is healthy and 1 otherwise,
\* without a flag it is 0 whatever the result.
C19_OneShotExit ==
    [][/\ last_op = "init"
       /\ last_result' = run_health_check(config, sample')
       /\ logged' = {"print(json.dumps(results))"}
       /\ last_op' = "--check" =>
             exit_status' = (IF last_result'.overall_status = "healthy" THEN 0 ELSE 1)
       /\ last_op' = "none" => exit_status' = 0]_vars

\* --check has met an unhealthy result
C19_Witness ==
    /\ last_op = "--check"
    /\ last_result.overall_status = "unhealthy"
    /\ exit_status = 1

\* C17: a scheduled check whose log check fails while every other check is
\* ok is healthy, submits one HEALTH_CHECK_WARNING alert and no
\* HEALTH_CHECK_FAILED alert, and does not start a recovery.
C17_WarningOnly ==
    (/\ last_op = "run_scheduled_check"
     /\ last_result # NoResult
     /\ last_result.checks["logs"].status = "warning"
     /\ \A n \in DOMAIN last_result.checks \ {"logs"} : last_result.checks[n].status = "ok")
    => /\ last_result.overall_status = "healthy"
       /\ Len(calls) = 1
       /\ calls[1].alert_type = "HEALTH_CHECK_WARNING"
       /\ calls[1].message = "Health check warnings: logs"
       /\ issued = "none"
       /\ "Attempting service restart..." \notin logged

\* a warning-only cycle whose alert went out
C17_Witness ==
    /\ last_op = "run_scheduled_check"
    /\ last_result # NoResult
    /\ last_result.overall_status = "healthy"
    /\ last_result.checks["logs"].status = "warning"
    /\ Len(calls) = 1 /\ calls[1].sent

FailedBoth(results) == WithStatus(results, "error") = <<"resources", "service">>

FailedAlerts(submitted) ==
    SelectSeq(submitted, LAMBDA c : c.alert_type = "HEALTH_CHECK_FAILED" /\ c.sent)

\* C18: with auto_restart on and both cooldowns longer than one tick, a
\* first scheduled check that finds resources and service in error is
\* unhealthy, sends one HEALTH_CHECK_FAILED alert and makes one restart
\* attempt; a check with the same failures one tick after such a check sends
\* no second alert and makes no second attempt, whatever the first command's
\* outcome.
C18_SecondCycleQuiet ==
    [][(last_op' = "run_scheduled_check" /\ last_result' # NoResult
                                         /\ FailedBoth(last_result')) =>
          /\ (alerts_sent = EmptyDict /\ last_checks = EmptyDict /\ restarts = <<>>) =>
                /\ last_result'.overall_status = "unhealthy"
                /\ Len(FailedAlerts(calls')) = 1
                /\ issued' # "none"
          /\ (/\ \E i \in 1..Len(dispatched) :
                    /\ dispatched[i].at = now - 1
                    /\ dispatched[i].alert_type = "HEALTH_CHECK_FAILED"
                    /\ dispatched[i].message = MsgHealthFailed(<<"resources", "service">>)
              /\ \E i \in 1..Len(restarts) : restarts[i].at = now - 1
              /\ last_op = "pass") =>
                /\ FailedAlerts(calls') = <<>>
                /\ issued' = "none"]_vars

\* C20: after a collect_metrics call that completes without error the
\* metrics file holds the entries of the in-memory window, in order.
C20_FileReflectsWindow ==
    (last_op = "collect_metrics" /\ raised = "none") => metrics_file = metrics_history

\* a collection that dropped an entry, after one whose write had failed
C20_Witness ==
    /\ last_op = "collect_metrics"
    /\ raised = "none"
    /\ removed # <<>>
    /\ Len(metrics_file) >= 2

\* C29: a cycle starts only when the loop is idle and, while a cycle runs,
\* the next thing to happen is its end (or the interrupt): two cycles due on
\* the same tick run one after the other.
C29_OneCycleAtATime ==
    [][/\ last_op' = "start" => (sched = "Idle" /\ sched' = "RunningCycle")
       /\ sched = "RunningCycle" =>
             /\ last_op' \in {Head(runnable), "interrupt"}
             /\ sched' \in {"Idle", "Stopped"}
       /\ sched' # "Overlapping"]_vars

\* the scheduled check starts on the tick on which the collection has just
\* run
C29_Witness ==
    /\ last_op = "start"
    /\ sched = "RunningCycle"
    /\ runnable = <<"run_scheduled_check">>
    /\ jobs["collect_metrics"] = now + MetricsEvery

\* C30: once loaded, the configuration tree is changed by no operation of
\* the monitor.
C30_ConfigFrozen == [][config' = config]_vars

\* the log check has just read a log that exists and that tail printed
LogsRead == last_op = "--check" /\ sample.logs.state = "readable"

\* the positions of the keyword-matching lines among the last TailLines
\* lines of the log
MatchingInTail(lines) ==
    {i \in 1..Len(lines) : i > Len(lines) - TailLines /\ lines[i].matches}

\* the line's timestamp is less than RecentMinutes before now, or cannot
\* be told
CountsAsRecent(line) == ~(line.parsable /\ line.age >= RecentMinutes)

\* C21 (as stated): the log check passes iff none of the matching lines
\* among the last 100 lines of the log is recent, however many matching
\* lines the tail holds.
C21_NoRecentInTail ==
    LogsRead =>
        LET lines == Expand(sample.logs.runs)
        IN  last_result.checks["logs"].status = "ok"
                <=> \A i \in MatchingInTail(lines) : ~CountsAsRecent(lines[i])

\* C21 (amended): the log check passes iff none of the last 10 matching
\* lines among the last 100 lines of the log is recent; a matching line of
\* 10 minutes ago is not recent and one of 1 minute ago is.
C21_NoRecentInLastTen ==
    LogsRead =>
        LET lines == Expand(sample.logs.runs)
            M     == MatchingInTail(lines)
        IN  /\ last_result.checks["logs"].status = "ok"
                 <=> \A i \in M :
                        CountsAsRecent(lines[i])
                            => Cardinality({j \in M : j > i}) >= ErrorsExamined
            /\ sample.logs.runs = <<Run(Line(TRUE, TRUE, 2 * RecentMinutes), 1)>>
                 => last_result.checks["logs"].status = "ok"
            /\ sample.logs.runs = <<Run(Line(TRUE, TRUE, 1), 1)>>
                 => last_result.checks["logs"].status = "warning"

\* a recent matching line is followed by ten older matching lines and the
\* check passes
C21_Witness ==
    /\ LogsRead
    /\ sample.logs.runs = <<Run(Line(TRUE, TRUE, 1), 1),
                            Run(Line(TRUE, TRUE, 2 * RecentMinutes), ErrorsExamined)>>
    /\ last_result.checks["logs"].status = "ok"

\* C22: a matching line whose timestamp cannot be parsed counts as a recent
\* error: when one is among the examined lines the log check fails and the
\* logs entry is a warning.
C22_UnparsableIsRecent ==
    LogsRead =>
        LET lines == Expand(sample.logs.runs)
            M     == MatchingInTail(lines)
        IN  (\E i \in M : /\ ~lines[i].parsable
                          /\ Cardinality({j \in M : j > i}) < ErrorsExamined)
                => last_result.checks["logs"].status = "warning"

\* the only matching lines of the log have no timestamp and the logs entry
\* is a warning
C22_Witness ==
    /\ LogsRead
    /\ sample.logs.runs = <<Run(Line(TRUE, FALSE, 0), 1), Run(Line(FALSE, TRUE, 1), 1)>>
    /\ last_result.checks["logs"].status = "warning"

\* C23: the api check passes iff the endpoint answers with an HTTP success
\* status and a latency strictly below the threshold, whatever the body;
\* on a transport failure or timeout it fails with an infinite
\* response_time.
C23_StatusAndLatencyDecide ==
    last_op = "--check" =>
        LET a     == sample.api
            entry == last_result.checks["api"]
        IN  /\ a.transport = "answered" =>
                  (entry.status = "ok"
                      <=> a.status_code \in 200..299 /\ a.latency < config.api_threshold)
            /\ a.transport = "failed" =>
                  entry.status = "error" /\ entry.data.response_time = "inf"

\* C24: the service check passes iff the active-state query reports
\* exactly 'active', whatever the outcome of the status-text query.
C24_ActiveDecides ==
    last_op = "--check" =>
        (last_result.checks["service"].status = "ok"
            <=> sample.service.is_active = "active")

\* C25: when sampling a resource metric fails, the resources check fails
\* and its data carries an error field.
C25_SamplingFailureFails ==
    (last_op = "--check" /\ (sample.psutil_error \/ sample.temp_error)) =>
        /\ last_result.checks["resources"].status = "error"
        /\ last_result.checks["resources"].data.error

\* the probes that met a failure of their own in the sampled world
FailedProbes(s) ==
    (IF s.api.transport = "failed" THEN {"api"} ELSE {}) \cup
    (IF s.psutil_error \/ s.temp_error THEN {"resources"} ELSE {}) \cup
    (IF "exception" \in {s.service.is_active, s.service.status} THEN {"service"} ELSE {}) \cup
    (IF s.logs.state \in {"unreadable", "exception"} THEN {"logs"} ELSE {})

\* C26: whatever probes fail internally, the evaluation raises nothing and
\* returns one result in which every failed probe is a non-ok entry whose
\* data carries an error field.
C26_FailuresBecomeErrors ==
    last_op = "--check" =>
        /\ raised = "none"
        /\ DOMAIN last_result.checks = {"api", "resources", "service", "logs"}
        /\ \A name \in FailedProbes(sample) :
              /\ last_result.checks[name].status # "ok"
              /\ last_result.checks[name].data.error

RECURSIVE Merged(_, _)
\* the merge of two trees, key by key: the user's value at a key of user,
\* merged with the default's when both are mappings, and the default's
\* value at a key of default alone
Merged(d, u) ==
    Dict([key \in DOMAIN d.items \cup DOMAIN u.items |->
            IF key \notin DOMAIN u.items THEN d.items[key]
            ELSE IF /\ key \in DOMAIN d.items
                    /\ d.items[key].kind = "dict" /\ u.items[key].kind = "dict"
                 THEN Merged(d.items[key], u.items[key])
                 ELSE u.items[key]])

\* every dict that existed before the step is as it was
NothingModified == SubSeq(heap', 1, Len(heap)) = heap

\* C27: deep_merge returns the key-by-key merge of its two trees and
\* modifies neither of them; merging the same user tree into the result
\* once more returns the same tree.
C27_DeepMerge ==
    [][/\ last_op' = "deep_merge" =>
            /\ Tree(heap', result')
                  = Merged(Tree(heap, default_config), Tree(heap, user_config))
            /\ NothingModified
       /\ last_op' = "deep_merge_again" =>
            /\ Tree(heap', result') = Tree(heap, result)
            /\ NothingModified]_vars

\* a nested mapping has been merged: the user's cooldown replaced the
\* default's inside alerts, and the default's top-level leaf was kept
C27_Witness ==
    /\ last_op = "deep_merge"
    /\ Tree(heap, default_config)
          = Dict([k \in Keys |-> IF k = "alerts" THEN Dict([c \in Keys |-> Leaf(1)])
                                 ELSE Leaf(1)])
    /\ Tree(heap, user_config)
          = Dict([k \in {"alerts"} |-> Dict([c \in {"cooldown"} |-> Leaf(2)])])
    /\ Tree(heap, result)
          = Dict([k \in Keys |->
                    IF k = "alerts"
                    THEN Dict([c \in Keys |-> IF c = "cooldown" THEN Leaf(2) ELSE Leaf(1)])
                    ELSE Leaf(1)])

\* the file, as the constructor left it, could not be loaded: it is still
\* absent, cannot be read or parsed, or holds a value that is no mapping
NotLoadable(file) ==
    \/ file.state \in {"absent", "unreadable", "invalid"}
    \/ file.state = "json" /\ file.content.kind # "dict"

\* C28: when the configuration file cannot be read, parsed or merged, or
\* the default file cannot be created, load_config logs the error and
\* returns the compiled-in defaults; the constructor never fails.
C28_FallsBackToDefaults ==
    /\ last_op # "init_failed"
    /\ raised = "none"
    /\ (last_op = "init" /\ NotLoadable(config_file)) =>
          /\ config = DefaultConfig
          /\ "Error loading config" \in logged

\* the monitor was constructed over a file holding a JSON value that is
\* not a mapping
C28_Witness ==
    /\ last_op = "init"
    /\ config_file.state = "json" /\ config_file.content = Leaf(1)
    /\ config = DefaultConfig

\* the ticks that pass during a step: the harness's clock tick or the
\* loop's sleep
Ticks ==
    CASE last_op' = "pass"  -> 1
      [] last_op' = "sleep" -> IF sched = "Backoff" THEN ErrorSleepTicks ELSE SleepTicks
      [] OTHER              -> 0

\* the step's send_alert calls that were dispatched under key k
DispatchedUnder(k) ==
    {i \in 1..Len(calls') :
        calls'[i].sent /\ alert_key(calls'[i].alert_type, calls'[i].message) = k}

\* C31: a key of alerts_sent stays in the map through every operation, and
\* the instant stored under it changes only when an alert with that key is
\* dispatched again, to an instant that is not earlier.
C31_RecordsOnlyGrow ==
    [][/\ DOMAIN alerts_sent \subseteq DOMAIN alerts_sent'
       /\ \A k \in DOMAIN alerts_sent :
             \/ alerts_sent'[k] = Elapse(alerts_sent[k], Ticks, -config.cooldown)
             \/ /\ DispatchedUnder(k) # {}
                /\ alerts_sent'[k] = now
                /\ alerts_sent'[k] >= alerts_sent[k]]_vars

\* two keys are in the map and the older one has just been dispatched again
C31_Witness ==
    /\ last_op = "send_alert"
    /\ Cardinality(DOMAIN alerts_sent) >= 2
    /\ Len(calls) = 1 /\ calls[1].sent /\ calls[1].known
    /\ \E k \in DOMAIN alerts_sent : alerts_sent[k] < now

\* C32: a send_alert call the cooldown suppresses changes nothing: the map
\* keeps the instant of the last dispatch, no sink is tried, nothing is
\* logged, and no later step dispatches the alert unless it is a new
\* send_alert call.
C32_SuppressedIsNoOp ==
    [][/\ (last_op' = "send_alert" /\ ~calls'[1].sent) =>
             /\ alerts_sent' = alerts_sent
             /\ config' = config
             /\ calls'[1].tried = <<>>
             /\ dispatched' = dispatched
             /\ logged' = {}
       /\ last_op' = "pass" =>
             /\ calls' = <<>>
             /\ dispatched' = Younger(dispatched, 1, config.cooldown)]_vars

\* a call has been suppressed one tick after the dispatch of its key, and
\* the map still holds the instant of that dispatch
C32_Witness ==
    /\ last_op = "send_alert"
    /\ Len(calls) = 1 /\ ~calls[1].sent
    /\ alerts_sent[alert_key(calls[1].alert_type, calls[1].message)] = now - 1

\* the call's enabled sinks have all failed, or none is enabled
NothingDelivered(call, cfg) ==
    /\ cfg.email_enabled => call.outcome.email # "ok"
    /\ cfg.webhook_enabled => call.outcome.webhook # "ok"

\* C33: send_alert marks the key as sent whatever becomes of the sinks:
\* also when every enabled sink fails or none is enabled the key holds the
\* instant of the call, and a call with a key marked less than the
\* cooldown ago is suppressed, so the failed delivery is not tried again.
C33_MarkedBeforeSinks ==
    [][last_op' = "send_alert" =>
          LET call == calls'[1]
              key  == alert_key(call.alert_type, call.message)
          IN  /\ call.sent => (key \in DOMAIN alerts_sent' /\ alerts_sent'[key] = now)
              /\ (call.sent /\ NothingDelivered(call, config)) =>
                    /\ key \in DOMAIN alerts_sent'
                    /\ InCooldown(alerts_sent'[key], config.cooldown)
              /\ (key \in DOMAIN alerts_sent
                     /\ now - alerts_sent[key] < config.cooldown) =>
                    /\ ~call.sent
                    /\ call.tried = <<>>]_vars

\* both sinks are enabled and both have just failed, and the key is marked
C33_Witness ==
    /\ last_op = "send_alert"
    /\ config.email_enabled /\ config.webhook_enabled
    /\ Len(calls) = 1 /\ calls[1].sent
    /\ calls[1].tried = <<"email", "webhook">>
    /\ calls[1].outcome = Sinks("fail", "fail")
    /\ {"Failed to send email alert", "Failed to send webhook alert"} \subseteq logged
    /\ alerts_sent[alert_key(calls[1].alert_type, calls[1].message)] = now

\* C34: recovery.max_restart_attempts is never consulted: a scheduled check
\* that finds the service in error, with auto_restart on and no recorded
\* attempt younger than the restart cooldown, issues the restart command
\* whatever the number of commands issued before, so that the number of
\* attempts passes max_restart_attempts.
C34_RestartsUncapped ==
    [][(/\ last_op' = "run_scheduled_check"
        /\ config.auto_restart
        /\ last_result' # NoResult
        /\ last_result'.checks["service"].status = "error"
        /\ ~(/\ "service_restart" \in DOMAIN last_checks
             /\ now - last_checks["service_restart"] < config.restart_cooldown))
          => /\ issued' \in RestartOutcomes
             /\ attempts' = IF attempts <= config.max_restart_attempts
                            THEN attempts + 1 ELSE attempts]_vars

\* a scheduled check has just issued and recorded one restart command
\* more than max_restart_attempts, under a restart cooldown longer than
\* the interval of the scheduled checks
C34_Witness ==
    /\ last_op = "run_scheduled_check"
    /\ issued \in {"exit0", "nonzero"}
    /\ attempts > config.max_restart_attempts
    /\ config.restart_cooldown > CheckEvery
    /\ "service_restart" \in DOMAIN last_checks
    /\ last_checks["service_restart"] = now

\* C35: a collection cycle evaluates and touches only the metrics window
\* and file: it submits no alert and issues no restart, also when its
\* result is unhealthy; a scheduled-check cycle evaluates and leaves the
\* metrics window and the metrics file as they were.
C35_CadencesDisjoint ==
    [][/\ last_op' = "collect_metrics" =>
             /\ calls' = <<>>
             /\ issued' = "none"
             /\ dispatched' = dispatched
             /\ restarts' = restarts
             /\ attempts' = attempts
             /\ alerts_sent' = alerts_sent
             /\ last_checks' = last_checks
       /\ last_op' = "run_scheduled_check" =>
             /\ metrics_history' = metrics_history
             /\ metrics_file' = metrics_file
             /\ removed' = <<>>]_vars

\* a collection cycle has just stored an unhealthy result, outside every
\* cooldown, and no alert was submitted
C35_Witness ==
    /\ last_op = "collect_metrics"
    /\ raised = "none"
    /\ last_result.overall_status = "unhealthy"
    /\ metrics_history # <<>>
    /\ alerts_sent = EmptyDict
    /\ calls = <<>>

\* C36: a run with --check or without a flag evaluates and prints, whatever
\* the result: it submits no alert, issues no restart command and leaves
\* the alert records, the recovery state, the metrics window and the
\* metrics file as they were.
C36_OneShotOnlyEvaluates ==
    [][last_op' \in {"--check", "none"} =>
          /\ last_result' # NoResult
          /\ logged' = {"print(json.dumps(results))"}
          /\ calls' = <<>>
          /\ issued' = "none"
          /\ dispatched' = dispatched
          /\ restarts' = restarts
          /\ attempts' = attempts
          /\ alerts_sent' = alerts_sent
          /\ last_checks' = last_checks
          /\ metrics_history' = metrics_history
          /\ metrics_file' = metrics_file]_vars

\* a run with --check found the service in error, with a sink and the
\* restart enabled and an earlier process's metrics file in place
C36_Witness ==
    /\ last_op = "--check"
    /\ exit_status = 1
    /\ last_result.checks["service"].status = "error"
    /\ config.webhook_enabled /\ config.auto_restart
    /\ alerts_sent = EmptyDict /\ last_checks = EmptyDict
    /\ metrics_history = <<>> /\ metrics_file # <<>>

\* C37: the monitor never reads the metrics file: a process starts with an
\* empty window whatever the file holds, the window only takes entries from
\* its own collections, and the first collection that completes leaves a
\* file with its own entry alone, also when the file held entries inside
\* the retention.
C37_FileNeverRead ==
    [][/\ last_op = "init" => metrics_history = <<>>
       /\ last_op' # "collect_metrics" => Len(metrics_history') = Len(metrics_history)
       /\ last_op' = "collect_metrics" =>
             \A e \in Range(metrics_history') :
                 e.timestamp = now \/ e \in Range(metrics_history)
       /\ (last_op' = "collect_metrics" /\ raised' = "none" /\ metrics_history = <<>>) =>
             /\ metrics_file' = <<NewEntry(last_result')>>
             /\ lost' = KeptNewer(metrics_file)]_vars

\* the first collection of a process has completed and its write has
\* discarded an entry of the earlier process that was inside the retention
C37_Witness ==
    /\ last_op = "collect_metrics"
    /\ raised = "none"
    /\ lost # <<>>
    /\ Len(metrics_file) = 1 /\ metrics_file[1].timestamp = now
    /\ metrics_file = metrics_history

\* C38: a collection whose write fails logs the error and returns: the
\* window keeps the new entry and the cleanup, the file is not brought up
\* to date, no other step writes it, and the next collection that
\* completes writes the whole window.
C38_WriteFailureNotRolledBack ==
    [][/\ (last_op' = "collect_metrics" /\ raised' = "write") =>
             /\ "Failed to collect metrics" \in logged'
             /\ sched' = "Idle"
             /\ metrics_history' = KeptNewer(Append(metrics_history, NewEntry(last_result')))
             /\ metrics_file' \in {metrics_file, <<>>}
       /\ last_op' # "collect_metrics" =>
             metrics_file' = Aged(metrics_file, Ticks, config.retention)
       /\ (last_op' = "collect_metrics" /\ raised' = "none") =>
             metrics_file' = metrics_history']_vars

\* a write has just failed after a cleanup that dropped an entry: the
\* window holds the new entry and the file still holds the dropped one
C38_Witness ==
    /\ last_op = "collect_metrics"
    /\ raised = "write"
    /\ removed # <<>>
    /\ metrics_history # <<>>
    /\ metrics_history[Len(metrics_history)].timestamp = now
    /\ metrics_file # <<>>
    /\ metrics_file # metrics_history
    /\ \E i \in 1..Len(metrics_file) : metrics_file[i].timestamp \in Range(removed)

====
